---------------------------- MODULE Spec2Model ----------------------------
(***************************************************************************)
(* A model of the physics core of balltest-rs: World (world.rs), the       *)
(* component data (components.rs, entity.rs) and PhysicsSystem             *)
(* (systems/physics.rs).                                                   *)
(*                                                                         *)
(* Numbers.  The program computes in f32.  The model computes in fixed     *)
(* point: an integer n stands for the real number n / Scale, so 10000 is   *)
(* 1.0, 3000 is 0.3 and 1 is 0.0001.  A product or quotient is rounded to  *)
(* the nearest representable value, as an f32 operation is.  Squared       *)
(* distances are kept exactly, in units of 1 / Scale^2.  The non-finite    *)
(* f32 values are modelled where the program can produce them: the mass    *)
(* INFINITY, and the kinds "inf" and "nan" of the impulse magnitude when   *)
(* the total inverse mass is 0.                                            *)
(*                                                                         *)
(* TimeSystem (systems/timing.rs), which turns real time into the fixed    *)
(* ticks update is called with, is modelled beside it, in nanoseconds:     *)
(* Duration arithmetic is exact, and Duration::mul_f32 goes through f32.   *)
(***************************************************************************)
EXTENDS Integers, Naturals, Sequences, FiniteSets, TLC

VARIABLES
    entities,   \* World.entities: the Vec<Entity>, in insertion order
    dt,         \* the Duration passed to update, in milliseconds
    pc,         \* where the program is: "idle", inside update, or "panicked"
    iter,       \* update: the collision iteration running (0-based)
    idx_i,      \* resolve_collisions: the outer loop index i (1-based)
    idx_j,      \* resolve_collisions: the inner loop index j (1-based)
    updates,    \* completed update calls (the count stops at the model's bounds)
    checks,     \* check_collision calls made by the current / last update
    world0,     \* history: every entity as it was when add_entity stored it
    before,     \* history: entities at the start of the current / last update
    last,       \* history: the last pair check, <<>> or <<[i, j, iter, pre, contact]>>
    impulses,   \* history: the pairs <<i, j>> whose resolution changed a velocity,
                \* in the current / last update, one entry for each time
    timing,     \* the TimeSystem: its fields, Durations and Instants in nanoseconds
    clock,      \* Instant::now(): nanoseconds since TimeSystem::new()
    calls,      \* tick and toggle_pause calls made
    ticked,     \* history: the last tick, <<>> or <<[ret, pre, elapsed, after]>>
    total_steps, \* history: the sum of the sim_steps returned by all ticks
    last_call,  \* history: the last call, "new", "tick", "pause" or "unpause"
    paused_at,  \* history: the clock when TimeSystem was last paused
    pause_len   \* history: how long the last pause that ended lasted

\* The variables of the physics core.
pvars ==
    <<entities, dt, pc, iter, idx_i, idx_j, updates, checks, world0, before, last, impulses>>

\* The variables of the time system.
tvars == <<timing, clock, calls, ticked, total_steps, last_call, paused_at, pause_len>>

vars == <<pvars, tvars>>

---------------------------------------------------------------------------
(* Bounds of the model. *)

\* add_entity is called at most this many times.
MaxEntities == 2

\* tick and toggle_pause are called at most this many times together.
MaxCalls == 5

\* The clock stops at this many nanoseconds.
MaxClock == 2000000000

\* update calls counted; a world that still changes is not updated further.
MaxUpdates == 6

\* Pair checks counted over the updates of a run: an update is begun while the
\* updates made so far have made fewer pair checks than this (with two entities
\* that is MaxUpdates updates; with more entities, fewer).
MaxChecks == 24

\* The model follows a world while every coordinate stays within this range
\* (1.5) and every velocity component within that one (1.0): the products of
\* the fixed-point arithmetic then stay below 2^31.
PosLimit == 15000
VelLimit == 10000

---------------------------------------------------------------------------
(* f32 arithmetic in fixed point. *)

\* The fixed-point resolution: Scale stands for 1.0.
Scale == 10000

\* f32::INFINITY, the mass of an immovable body.
INFINITY == -1

Abs(x) == IF x < 0 THEN -x ELSE x

\* a / b rounded to the nearest integer (halves away from zero), b > 0.
RDiv(a, b) == IF a >= 0 THEN (a + b \div 2) \div b ELSE -(((-a) + b \div 2) \div b)

\* The f32 product a * b.
FMul(a, b) == RDiv(a * b, Scale)

\* The f32 quotient a / b of finite values, b # 0.
FDiv(a, b) == IF b > 0 THEN RDiv(a * Scale, b) ELSE -RDiv(a * Scale, -b)

RECURSIVE SqrtSearch(_, _, _)
\* The largest r in lo..hi with r * r <= n.
SqrtSearch(n, lo, hi) ==
    IF lo >= hi THEN lo
    ELSE LET mid == (lo + hi + 1) \div 2
         IN  IF mid * mid <= n THEN SqrtSearch(n, mid, hi) ELSE SqrtSearch(n, lo, mid - 1)

\* sqrt of an exact square-unit quantity n (units 1/Scale^2), rounded to nearest.
SqrtSq(n) ==
    LET r == SqrtSearch(n, 0, 46340)
    IN  IF n - r * r > r THEN r + 1 ELSE r

\* f32::sqrt of a fixed-point value x >= 0.
FSqrt(x) == SqrtSq(x * Scale)

\* f32::clamp for finite arguments with lo <= hi.
Clamp(x, lo, hi) == IF x < lo THEN lo ELSE IF x > hi THEN hi ELSE x

\* f32::is_finite on a mass.
is_finite(m) == m # INFINITY

\* Duration::as_secs_f32 of a Duration of ms milliseconds.
as_secs_f32(ms) == RDiv(ms * Scale, 1000)

---------------------------------------------------------------------------
(* Components and entities. *)

\* Physics::new(): the defaults.
Physics_new ==
    [velocity |-> <<0, 0>>, acceleration |-> <<0, 0>>, mass |-> Scale,
     apply_gravity |-> TRUE, dynamic |-> TRUE, restitution |-> 8000, friction |-> 5000]

\* Physics::new_static(): infinite mass, not dynamic, no gravity.
Physics_new_static ==
    [Physics_new EXCEPT !.mass = INFINITY, !.dynamic = FALSE,
                        !.apply_gravity = FALSE, !.restitution = 5000]

\* Physics::with_velocity.
with_velocity(p, v) == [p EXCEPT !.velocity = v]

\* Entity::new_circle: no physics; Option<Physics> is <<>> (None) or <<p>> (Some(p)).
new_circle(position, radius) ==
    [position |-> position, physics |-> <<>>,
     shape |-> [kind |-> "Circle", radius |-> radius]]

\* Entity::new_rectangle.
new_rectangle(position, length, height) ==
    [position |-> position, physics |-> <<>>,
     shape |-> [kind |-> "Rectangle", length |-> length, height |-> height]]

\* Entity::new_text.
new_text(position) ==
    [position |-> position, physics |-> <<>>, shape |-> [kind |-> "Text"]]

\* Entity::with_physics.
with_physics(e, p) == [e EXCEPT !.physics = <<p>>]

\* Entity::physics().is_some()
has_physics(e) == e.physics # <<>>

\* The entity's Physics, when it has one.
physics(e) == e.physics[1]

---------------------------------------------------------------------------
(* PhysicsSystem::new: the tunable constants. *)

\* gravity: [0.0, -0.5]
gravity == <<0, -5000>>

\* collision_iterations: 4
collision_iterations == 4

\* sleep_velocity_threshold: 0.001
sleep_velocity_threshold == 10

\* air_damping: 0.98
air_damping == 9800

\* The literal 0.0001 that squared distances are compared with (units 1/Scale^2).
degenerate_dist_sq == 10000

---------------------------------------------------------------------------
(* Collision detection.  A result is <<>> (None) or <<[normal, depth]>>.   *)

Some(normal, depth) == <<[normal |-> normal, depth |-> depth]>>

\* A slip: <= for < in the overlap test, so circles that merely touch collide.
check_circle_circle_touching(pos_a, r_a, pos_b, r_b) ==
    LET dx == pos_b[1] - pos_a[1]
        dy == pos_b[2] - pos_a[2]
        dist_sq == dx * dx + dy * dy
        min_dist == r_a + r_b
    IN  IF dist_sq <= min_dist * min_dist /\ dist_sq > degenerate_dist_sq
        THEN LET dist == SqrtSq(dist_sq)
             IN  Some(<<FDiv(dx, dist), FDiv(dy, dist)>>, min_dist - dist)
        ELSE <<>>

\* A slip: the offset taken from A to B in magnitude only, so that the normal
\* is the same for either order of the pair.
check_circle_circle_unsigned(pos_a, r_a, pos_b, r_b) ==
    LET dx == Abs(pos_b[1] - pos_a[1])
        dy == Abs(pos_b[2] - pos_a[2])
        dist_sq == dx * dx + dy * dy
        min_dist == r_a + r_b
    IN  IF dist_sq < min_dist * min_dist /\ dist_sq > degenerate_dist_sq
        THEN LET dist == SqrtSq(dist_sq)
             IN  Some(<<FDiv(dx, dist), FDiv(dy, dist)>>, min_dist - dist)
        ELSE <<>>

\* PhysicsSystem::check_circle_circle
check_circle_circle(pos_a, r_a, pos_b, r_b) ==
    LET dx == pos_b[1] - pos_a[1]
        dy == pos_b[2] - pos_a[2]
        dist_sq == dx * dx + dy * dy
        min_dist == r_a + r_b
    IN  IF dist_sq < min_dist * min_dist /\ dist_sq > degenerate_dist_sq
        THEN LET dist == SqrtSq(dist_sq)
             IN  Some(<<FDiv(dx, dist), FDiv(dy, dist)>>, min_dist - dist)
        ELSE <<>>

\* A slip: the depth of the inside branch taken as radius - distance-to-edge.
check_circle_rect_shallow(circle_pos, radius, rect_pos, length, height) ==
    LET half_w == RDiv(length, 2)
        half_h == RDiv(height, 2)
        closest_x == Clamp(circle_pos[1] - rect_pos[1], -half_w, half_w) + rect_pos[1]
        closest_y == Clamp(circle_pos[2] - rect_pos[2], -half_h, half_h) + rect_pos[2]
        dx == circle_pos[1] - closest_x
        dy == circle_pos[2] - closest_y
        dist_sq == dx * dx + dy * dy
    IN  IF dist_sq < radius * radius
        THEN IF dist_sq > degenerate_dist_sq
             THEN LET dist == SqrtSq(dist_sq)
                  IN  Some(<<FDiv(dx, dist), FDiv(dy, dist)>>, radius - dist)
             ELSE LET dx_to_edge == half_w - Abs(circle_pos[1] - rect_pos[1])
                      dy_to_edge == half_h - Abs(circle_pos[2] - rect_pos[2])
                  IN  IF dx_to_edge < dy_to_edge
                      THEN LET sign == IF circle_pos[1] > rect_pos[1] THEN Scale ELSE -Scale
                           IN  Some(<<sign, 0>>, radius - dx_to_edge)
                      ELSE LET sign == IF circle_pos[2] > rect_pos[2] THEN Scale ELSE -Scale
                           IN  Some(<<0, sign>>, radius - dy_to_edge)
        ELSE <<>>

\* check_circle_rect takes its inner else branch ("Circle center inside
\* rectangle"): the closest point is within the radius and dist_sq <= 0.0001.
circle_rect_inside_branch(circle_pos, radius, rect_pos, length, height) ==
    LET half_w == RDiv(length, 2)
        half_h == RDiv(height, 2)
        closest_x == Clamp(circle_pos[1] - rect_pos[1], -half_w, half_w) + rect_pos[1]
        closest_y == Clamp(circle_pos[2] - rect_pos[2], -half_h, half_h) + rect_pos[2]
        dx == circle_pos[1] - closest_x
        dy == circle_pos[2] - closest_y
        dist_sq == dx * dx + dy * dy
    IN  dist_sq < radius * radius /\ ~(dist_sq > degenerate_dist_sq)

\* PhysicsSystem::check_circle_rect
check_circle_rect(circle_pos, radius, rect_pos, length, height) ==
    LET half_w == RDiv(length, 2)
        half_h == RDiv(height, 2)
        closest_x == Clamp(circle_pos[1] - rect_pos[1], -half_w, half_w) + rect_pos[1]
        closest_y == Clamp(circle_pos[2] - rect_pos[2], -half_h, half_h) + rect_pos[2]
        dx == circle_pos[1] - closest_x
        dy == circle_pos[2] - closest_y
        dist_sq == dx * dx + dy * dy
    IN  IF dist_sq < radius * radius
        THEN IF dist_sq > degenerate_dist_sq
             THEN LET dist == SqrtSq(dist_sq)
                  IN  Some(<<FDiv(dx, dist), FDiv(dy, dist)>>, radius - dist)
             ELSE LET dx_to_edge == half_w - Abs(circle_pos[1] - rect_pos[1])
                      dy_to_edge == half_h - Abs(circle_pos[2] - rect_pos[2])
                  IN  IF dx_to_edge < dy_to_edge
                      THEN LET sign == IF circle_pos[1] > rect_pos[1] THEN Scale ELSE -Scale
                           IN  Some(<<sign, 0>>, radius + dx_to_edge)
                      ELSE LET sign == IF circle_pos[2] > rect_pos[2] THEN Scale ELSE -Scale
                           IN  Some(<<0, sign>>, radius + dy_to_edge)
        ELSE <<>>

\* A slip: > for < in the choice of the axis, the larger overlap winning.
check_rect_rect_larger(pos_a, len_a, height_a, pos_b, len_b, height_b) ==
    LET half_w_a == RDiv(len_a, 2)
        half_h_a == RDiv(height_a, 2)
        half_w_b == RDiv(len_b, 2)
        half_h_b == RDiv(height_b, 2)
        dx == pos_b[1] - pos_a[1]
        dy == pos_b[2] - pos_a[2]
        overlap_x == (half_w_a + half_w_b) - Abs(dx)
        overlap_y == (half_h_a + half_h_b) - Abs(dy)
    IN  IF overlap_x > 0 /\ overlap_y > 0
        THEN IF overlap_x > overlap_y
             THEN Some(IF dx > 0 THEN <<Scale, 0>> ELSE <<-Scale, 0>>, overlap_x)
             ELSE Some(IF dy > 0 THEN <<0, Scale>> ELSE <<0, -Scale>>, overlap_y)
        ELSE <<>>

\* PhysicsSystem::check_rect_rect
check_rect_rect(pos_a, len_a, height_a, pos_b, len_b, height_b) ==
    LET half_w_a == RDiv(len_a, 2)
        half_h_a == RDiv(height_a, 2)
        half_w_b == RDiv(len_b, 2)
        half_h_b == RDiv(height_b, 2)
        dx == pos_b[1] - pos_a[1]
        dy == pos_b[2] - pos_a[2]
        overlap_x == (half_w_a + half_w_b) - Abs(dx)
        overlap_y == (half_h_a + half_h_b) - Abs(dy)
    IN  IF overlap_x > 0 /\ overlap_y > 0
        THEN IF overlap_x < overlap_y
             THEN Some(IF dx > 0 THEN <<Scale, 0>> ELSE <<-Scale, 0>>, overlap_x)
             ELSE Some(IF dy > 0 THEN <<0, Scale>> ELSE <<0, -Scale>>, overlap_y)
        ELSE <<>>

\* A slip: the map over the Option left out, the normal passed on as it is.
negate_normal_forgot(c) == c

\* The map over the Option in the Rectangle-Circle arm: the normal negated.
negate_normal(c) ==
    IF c = <<>> THEN <<>> ELSE Some(<<-c[1].normal[1], -c[1].normal[2]>>, c[1].depth)

\* A slip: the catch-all arm collides a shape without an arm of its own (Text)
\* as a circle of radius 0.1.
shape_pair_contact_text(entity_a, entity_b) ==
    LET pos_a == entity_a.position
        pos_b == entity_b.position
        sa == entity_a.shape
        sb == entity_b.shape
    IN  CASE sa.kind = "Circle" /\ sb.kind = "Circle" ->
               check_circle_circle(pos_a, sa.radius, pos_b, sb.radius)
          [] sa.kind = "Circle" /\ sb.kind = "Rectangle" ->
               check_circle_rect(pos_a, sa.radius, pos_b, sb.length, sb.height)
          [] sa.kind = "Rectangle" /\ sb.kind = "Circle" ->
               negate_normal(check_circle_rect(pos_b, sb.radius, pos_a, sa.length, sa.height))
          [] sa.kind = "Rectangle" /\ sb.kind = "Rectangle" ->
               check_rect_rect(pos_a, sa.length, sa.height, pos_b, sb.length, sb.height)
          [] OTHER ->
               check_circle_circle(pos_a, IF sa.kind = "Circle" THEN sa.radius ELSE 1000,
                                   pos_b, IF sb.kind = "Circle" THEN sb.radius ELSE 1000)

\* check_collision's match on the two shapes.
shape_pair_contact(entity_a, entity_b) ==
    LET pos_a == entity_a.position
        pos_b == entity_b.position
        sa == entity_a.shape
        sb == entity_b.shape
    IN  CASE sa.kind = "Circle" /\ sb.kind = "Circle" ->
               check_circle_circle(pos_a, sa.radius, pos_b, sb.radius)
          [] sa.kind = "Circle" /\ sb.kind = "Rectangle" ->
               check_circle_rect(pos_a, sa.radius, pos_b, sb.length, sb.height)
          [] sa.kind = "Rectangle" /\ sb.kind = "Circle" ->
               negate_normal(check_circle_rect(pos_b, sb.radius, pos_a, sa.length, sa.height))
          [] sa.kind = "Rectangle" /\ sb.kind = "Rectangle" ->
               check_rect_rect(pos_a, sa.length, sa.height, pos_b, sb.length, sb.height)
          [] OTHER -> <<>>

\* A slip: the early return for two physics-less entities left out.
check_collision_unguarded(entity_a, entity_b) == shape_pair_contact(entity_a, entity_b)

\* PhysicsSystem::check_collision
check_collision(entity_a, entity_b) ==
    IF ~has_physics(entity_a) /\ ~has_physics(entity_b)
    THEN <<>>
    ELSE shape_pair_contact(entity_a, entity_b)

---------------------------------------------------------------------------
(* Collision response: PhysicsSystem::resolve_collision_pair.              *)

\* The fallbacks for an entity without Physics (unwrap_or).
mass_of(e) == IF has_physics(e) THEN physics(e).mass ELSE INFINITY
dynamic_of(e) == IF has_physics(e) THEN physics(e).dynamic ELSE FALSE
restitution_of(e) == IF has_physics(e) THEN physics(e).restitution ELSE 5000
friction_of(e) == IF has_physics(e) THEN physics(e).friction ELSE 3000
velocity_of(e) == IF has_physics(e) THEN physics(e).velocity ELSE <<0, 0>>

\* A slip: the is_finite test left out, a dynamic body of infinite mass getting
\* the inverse mass 1.
inv_mass_heavy(dynamic, mass) ==
    IF dynamic THEN (IF is_finite(mass) THEN FDiv(Scale, mass) ELSE Scale) ELSE 0

\* A slip: the inverse mass of a dynamic body taken as 1 whatever its mass.
inv_mass_unit(dynamic, mass) == IF dynamic /\ is_finite(mass) THEN Scale ELSE 0

\* inv_mass_a / inv_mass_b: 1 / mass for a dynamic body of finite mass, else 0.
inv_mass(dynamic, mass) == IF dynamic /\ is_finite(mass) THEN FDiv(Scale, mass) ELSE 0

\* A slip: || for &&, so a pair with one static side gets no response.
both_static_either(dynamic_a, dynamic_b) == ~dynamic_a \/ ~dynamic_b

\* "Both static = no collision response": the early return's condition.
both_static(dynamic_a, dynamic_b) == ~dynamic_a /\ ~dynamic_b

\* POSITION CORRECTION: the entities after it.
position_correction(ents, idx_a, idx_b, normal, depth) ==
    LET dynamic_a == dynamic_of(ents[idx_a])
        dynamic_b == dynamic_of(ents[idx_b])
        inv_mass_a == inv_mass(dynamic_a, mass_of(ents[idx_a]))
        inv_mass_b == inv_mass(dynamic_b, mass_of(ents[idx_b]))
        total_inv_mass == inv_mass_a + inv_mass_b
    IN  IF total_inv_mass > 0
        THEN LET correction == <<FDiv(FMul(normal[1], depth), total_inv_mass),
                                 FDiv(FMul(normal[2], depth), total_inv_mass)>>
                 pa == ents[idx_a].position
                 moved_a == IF dynamic_a /\ inv_mass_a > 0
                            THEN [ents EXCEPT ![idx_a].position =
                                     <<pa[1] - FMul(correction[1], inv_mass_a),
                                       pa[2] - FMul(correction[2], inv_mass_a)>>]
                            ELSE ents
                 pb == moved_a[idx_b].position
             IN  IF dynamic_b /\ inv_mass_b > 0
                 THEN [moved_a EXCEPT ![idx_b].position =
                          <<pb[1] + FMul(correction[1], inv_mass_b),
                            pb[2] + FMul(correction[2], inv_mass_b)>>]
                 ELSE moved_a
        ELSE ents

\* rel_vel: the relative velocity the resolver projects on the normal.
rel_vel_of(vel_a, vel_b) == <<vel_a[1] - vel_b[1], vel_a[2] - vel_b[2]>>

\* The kind of j = -(1 + restitution) * vel_along_normal / total_inv_mass as an
\* f32, for vel_along_normal <= 0: x / 0.0 is +inf for x > 0 and NaN for x = -0.0.
j_kind(vel_along_normal, total_inv_mass) ==
    IF total_inv_mass > 0 THEN "finite"
    ELSE IF vel_along_normal < 0 THEN "inf" ELSE "nan"

\* The kind of the clamp bound j.abs() * friction: inf * 0.0 is NaN.
bound_kind(jk, friction) ==
    IF jk = "finite" THEN "finite"
    ELSE IF jk = "nan" THEN "nan"
    ELSE IF friction = 0 THEN "nan" ELSE "inf"

\* f32::clamp panics when min > max or when either bound is NaN.
clamp_panics(vel_along_normal, total_inv_mass, friction) ==
    bound_kind(j_kind(vel_along_normal, total_inv_mass), friction) = "nan"

\* A slip: the impulse subtracted from B's velocity as it is from A's.
apply_impulses_same_sign(ents, idx_a, idx_b, total_impulse, inv_mass_a, inv_mass_b) ==
    LET dynamic_a == dynamic_of(ents[idx_a])
        dynamic_b == dynamic_of(ents[idx_b])
        va == velocity_of(ents[idx_a])
        moved_a == IF dynamic_a /\ inv_mass_a > 0 /\ has_physics(ents[idx_a])
                   THEN [ents EXCEPT ![idx_a].physics[1].velocity =
                            <<va[1] - FMul(total_impulse[1], inv_mass_a),
                              va[2] - FMul(total_impulse[2], inv_mass_a)>>]
                   ELSE ents
        vb == velocity_of(moved_a[idx_b])
    IN  IF dynamic_b /\ inv_mass_b > 0 /\ has_physics(ents[idx_b])
        THEN [moved_a EXCEPT ![idx_b].physics[1].velocity =
                 <<vb[1] - FMul(total_impulse[1], inv_mass_b),
                   vb[2] - FMul(total_impulse[2], inv_mass_b)>>]
        ELSE moved_a

\* Apply impulses: the entities after the velocity changes.
apply_impulses(ents, idx_a, idx_b, total_impulse, inv_mass_a, inv_mass_b) ==
    LET dynamic_a == dynamic_of(ents[idx_a])
        dynamic_b == dynamic_of(ents[idx_b])
        va == velocity_of(ents[idx_a])
        moved_a == IF dynamic_a /\ inv_mass_a > 0 /\ has_physics(ents[idx_a])
                   THEN [ents EXCEPT ![idx_a].physics[1].velocity =
                            <<va[1] - FMul(total_impulse[1], inv_mass_a),
                              va[2] - FMul(total_impulse[2], inv_mass_a)>>]
                   ELSE ents
        vb == velocity_of(moved_a[idx_b])
    IN  IF dynamic_b /\ inv_mass_b > 0 /\ has_physics(ents[idx_b])
        THEN [moved_a EXCEPT ![idx_b].physics[1].velocity =
                 <<vb[1] + FMul(total_impulse[1], inv_mass_b),
                   vb[2] + FMul(total_impulse[2], inv_mass_b)>>]
        ELSE moved_a

\* total_inv_mass of the pair.
total_inv_mass_of(ents, idx_a, idx_b) ==
    inv_mass(dynamic_of(ents[idx_a]), mass_of(ents[idx_a]))
       + inv_mass(dynamic_of(ents[idx_b]), mass_of(ents[idx_b]))

\* The call gets past both early returns, to the divisions by total_inv_mass in
\* the impulse magnitude j and in the friction impulse.
reaches_impulse(ents, idx_a, idx_b, normal) ==
    LET rel_vel == rel_vel_of(velocity_of(ents[idx_a]), velocity_of(ents[idx_b]))
        vel_along_normal == FMul(rel_vel[1], normal[1]) + FMul(rel_vel[2], normal[2])
    IN  /\ ~both_static(dynamic_of(ents[idx_a]), dynamic_of(ents[idx_b]))
        /\ ~(vel_along_normal > 0)

\* VELOCITY RESOLUTION past the separating test: restitution, normal impulse,
\* friction, and the impulses applied; total_inv_mass = 0 leaves a non-finite
\* impulse that is applied to neither side, or panics in f32::clamp.
impulse_resolution(ents, idx_a, idx_b, normal, rel_vel, vel_along_normal) ==
    LET a == ents[idx_a]
        b == ents[idx_b]
        inv_mass_a == inv_mass(dynamic_of(a), mass_of(a))
        inv_mass_b == inv_mass(dynamic_of(b), mass_of(b))
        total_inv_mass == inv_mass_a + inv_mass_b
        restitution == FSqrt(FMul(restitution_of(a), restitution_of(b)))
        friction == FMul(friction_of(a) + friction_of(b), 5000)
    IN  IF clamp_panics(vel_along_normal, total_inv_mass, friction)
        THEN [entities |-> ents, panicked |-> TRUE]
        ELSE IF total_inv_mass = 0
        THEN [entities |-> ents, panicked |-> FALSE]
        ELSE
        LET j == FDiv(FMul(-(Scale + restitution), vel_along_normal), total_inv_mass)
            tangent == <<-normal[2], normal[1]>>
            vel_along_tangent == FMul(rel_vel[1], tangent[1]) + FMul(rel_vel[2], tangent[2])
            bound == FMul(Abs(j), friction)
            friction_impulse_mag == Clamp(FDiv(-vel_along_tangent, total_inv_mass), -bound, bound)
            total_impulse == <<FMul(normal[1], j) + FMul(tangent[1], friction_impulse_mag),
                               FMul(normal[2], j) + FMul(tangent[2], friction_impulse_mag)>>
        IN  [entities |-> apply_impulses(ents, idx_a, idx_b, total_impulse,
                                         inv_mass_a, inv_mass_b),
             panicked |-> FALSE]

\* VELOCITY RESOLUTION: the relative velocity along the normal, and the return
\* for "objects separating".
velocity_resolution(ents, idx_a, idx_b, normal) ==
    LET rel_vel == rel_vel_of(velocity_of(ents[idx_a]), velocity_of(ents[idx_b]))
        vel_along_normal == FMul(rel_vel[1], normal[1]) + FMul(rel_vel[2], normal[2])
    IN  IF vel_along_normal > 0
        THEN [entities |-> ents, panicked |-> FALSE]
        ELSE impulse_resolution(ents, idx_a, idx_b, normal, rel_vel, vel_along_normal)

\* PhysicsSystem::resolve_collision_pair: the entities after it, and whether the
\* call panicked (in f32::clamp).
resolve_collision_pair(ents, idx_a, idx_b, normal, depth) ==
    IF both_static(dynamic_of(ents[idx_a]), dynamic_of(ents[idx_b]))
    THEN [entities |-> ents, panicked |-> FALSE]
    ELSE velocity_resolution(position_correction(ents, idx_a, idx_b, normal, depth),
                             idx_a, idx_b, normal)

---------------------------------------------------------------------------
(* Integration: phases 1 and 2 of PhysicsSystem::update, per entity.       *)

\* A slip: the sleep test left out, so a slow body keeps its velocity.
sleep_velocity_never(v) == v

\* "Sleep very slow objects": the velocity after the sleep test.
sleep_velocity(v) ==
    IF v[1] * v[1] + v[2] * v[2] < sleep_velocity_threshold * sleep_velocity_threshold
    THEN <<0, 0>>
    ELSE v

\* A slip: the acceleration reset at the end of phase 1 left out.
integrate_velocity_keep(e, dt_secs) ==
    IF ~has_physics(e) THEN e
    ELSE IF ~physics(e).dynamic THEN e
    ELSE LET p == physics(e)
             acc == IF p.apply_gravity
                    THEN <<p.acceleration[1] + gravity[1], p.acceleration[2] + gravity[2]>>
                    ELSE p.acceleration
             v1 == <<p.velocity[1] + FMul(acc[1], dt_secs),
                     p.velocity[2] + FMul(acc[2], dt_secs)>>
             v2 == <<FMul(v1[1], air_damping), FMul(v1[2], air_damping)>>
         IN  [e EXCEPT !.physics[1].velocity = sleep_velocity(v2),
                       !.physics[1].acceleration = acc]

\* A slip: the air damping left out of phase 1.
integrate_velocity_undamped(e, dt_secs) ==
    IF ~has_physics(e) THEN e
    ELSE IF ~physics(e).dynamic THEN e
    ELSE LET p == physics(e)
             acc == IF p.apply_gravity
                    THEN <<p.acceleration[1] + gravity[1], p.acceleration[2] + gravity[2]>>
                    ELSE p.acceleration
             v1 == <<p.velocity[1] + FMul(acc[1], dt_secs),
                     p.velocity[2] + FMul(acc[2], dt_secs)>>
         IN  [e EXCEPT !.physics[1].velocity = sleep_velocity(v1),
                       !.physics[1].acceleration = <<0, 0>>]

\* PHASE 1 for one entity: gravity, velocity, damping, sleep, acceleration reset.
integrate_velocity(e, dt_secs) ==
    IF ~has_physics(e) THEN e
    ELSE IF ~physics(e).dynamic THEN e
    ELSE LET p == physics(e)
             acc == IF p.apply_gravity
                    THEN <<p.acceleration[1] + gravity[1], p.acceleration[2] + gravity[2]>>
                    ELSE p.acceleration
             v1 == <<p.velocity[1] + FMul(acc[1], dt_secs),
                     p.velocity[2] + FMul(acc[2], dt_secs)>>
             v2 == <<FMul(v1[1], air_damping), FMul(v1[2], air_damping)>>
         IN  [e EXCEPT !.physics[1].velocity = sleep_velocity(v2),
                       !.physics[1].acceleration = <<0, 0>>]

\* A slip: the dynamic test left out of phase 2.
integrate_position_any(e, dt_secs) ==
    IF ~has_physics(e) THEN e
    ELSE [e EXCEPT !.position =
             <<e.position[1] + FMul(physics(e).velocity[1], dt_secs),
               e.position[2] + FMul(physics(e).velocity[2], dt_secs)>>]

\* PHASE 2 for one entity: position += velocity * dt.
integrate_position(e, dt_secs) ==
    IF ~has_physics(e) THEN e
    ELSE IF ~physics(e).dynamic THEN e
    ELSE [e EXCEPT !.position =
             <<e.position[1] + FMul(physics(e).velocity[1], dt_secs),
               e.position[2] + FMul(physics(e).velocity[2], dt_secs)>>]

---------------------------------------------------------------------------
(* The inputs: the entities a caller adds, and the fixed tick it passes.   *)

\* Physics::new() with gravity switched off (apply_gravity is a pub field).
no_gravity == [Physics_new EXCEPT !.apply_gravity = FALSE]

\* Dynamic circle r 0.3 at the origin moving right at 0.05, restitution 0.8.
MoverA == with_physics(new_circle(<<0, 0>>, 3000), with_velocity(no_gravity, <<500, 0>>))

\* Dynamic circle r 0.2 at (0.5, 0) at rest, restitution 0.8: touches MoverA.
RestB == with_physics(new_circle(<<5000, 0>>, 2000), no_gravity)

\* As MoverA, restitution 1 and friction 0.
ElasticA ==
    with_physics(new_circle(<<0, 0>>, 3000),
                 [no_gravity EXCEPT !.velocity = <<500, 0>>, !.restitution = Scale, !.friction = 0])

\* Dynamic circle r 0.2 at (0.5, 0) moving left at 0.05, restitution 1, friction 0.
ElasticB ==
    with_physics(new_circle(<<5000, 0>>, 2000),
                 [no_gravity EXCEPT !.velocity = <<-500, 0>>, !.restitution = Scale, !.friction = 0])

\* Dynamic circle r 0.2 at (-0.4, 0) at rest: overlaps a body at the origin.
LeftRest == with_physics(new_circle(<<-4000, 0>>, 2000), no_gravity)

\* Dynamic circle r 0.2 of mass 2 at (0.3, 0.2) moving away from the origin at
\* (0.06, 0.04): overlaps off the axes.
OffAxis ==
    with_physics(new_circle(<<3000, 2000>>, 2000),
                 [no_gravity EXCEPT !.mass = 2 * Scale, !.velocity = <<600, 400>>])

\* Dynamic circle r 0.2 at (0.005, 0) at rest: within 0.01 of the origin.
NearOrigin == with_physics(new_circle(<<50, 0>>, 2000), no_gravity)

\* Dynamic circle r 0.1 at (0.1, 0.1) slower than the sleep threshold.
Slow == with_physics(new_circle(<<1000, 1000>>, 1000), with_velocity(no_gravity, <<5, 3>>))

\* Dynamic circle r 0.1 at (0, 0.35) with gravity: falls on a body at the origin.
Falling == with_physics(new_circle(<<0, 3500>>, 1000), Physics_new)

\* Dynamic circle r 0.2 of infinite mass at (0.4, 0) at rest.
Heavy == with_physics(new_circle(<<4000, 0>>, 2000), [no_gravity EXCEPT !.mass = INFINITY])

\* Dynamic rectangle 0.4 x 0.2 at (0.3, 0.05) at rest.
Box == with_physics(new_rectangle(<<3000, 500>>, 4000, 2000), no_gravity)

\* Static circle r 0.3 at the origin.
StaticCircle == with_physics(new_circle(<<0, 0>>, 3000), Physics_new_static)

\* Static rectangle 0.4 x 0.4 at the origin.
StaticRect == with_physics(new_rectangle(<<0, 0>>, 4000, 4000), Physics_new_static)

\* Rectangle 0.4 x 0.4 at the origin, dynamic = false with mass 1, a velocity and
\* an acceleration (both pub fields).
Frozen ==
    with_physics(new_rectangle(<<0, 0>>, 4000, 4000),
                 [no_gravity EXCEPT !.dynamic = FALSE, !.velocity = <<200, 0>>,
                                    !.acceleration = <<1000, 0>>])

\* Static circle r 0.1 at (0.205, 0): its centre 0.005 outside the right edge of
\* StaticRect.
Beside == with_physics(new_circle(<<2050, 0>>, 1000), Physics_new_static)

\* Circle r 0.3 at (0.1, 0) without Physics.
PlainCircle == new_circle(<<1000, 0>>, 3000)

\* Rectangle 0.4 x 0.4 at (0.2, 0.1) without Physics.
PlainRect == new_rectangle(<<2000, 1000>>, 4000, 4000)

\* Text at (0.1, 0) with a dynamic Physics: a velocity and an acceleration.
Label ==
    with_physics(new_text(<<1000, 0>>),
                 [no_gravity EXCEPT !.velocity = <<300, 0>>, !.acceleration = <<1000, 0>>])

Catalog ==
    {MoverA, RestB, ElasticA, ElasticB, LeftRest, OffAxis, NearOrigin, Slow, Falling,
     Heavy, Box, StaticCircle, StaticRect, Frozen, Beside, PlainCircle, PlainRect,
     Label}

\* The ticks update is called with, in milliseconds (the program's is 8 ms).
DtSet == {8, 100}

---------------------------------------------------------------------------
(* TimeSystem (systems/timing.rs).  A Duration and an Instant are a number *)
(* of nanoseconds; an f32 is computed exactly, by its 24-bit mantissa.     *)

Min(a, b) == IF a < b THEN a ELSE b

\* sim_dt: Duration::from_millis(8).
sim_dt == 8000000

\* fps_dt: Duration::from_secs(1).
fps_dt == 1000000000

\* n rounded to a multiple of unit, a tie to the even multiple (the rounding of
\* every f32 operation and of Duration::from_secs_f32).
RoundToEven(n, unit) ==
    LET q == n \div unit
        r == n % unit
    IN  IF 2 * r > unit \/ (2 * r = unit /\ q % 2 = 1) THEN (q + 1) * unit ELSE q * unit

\* The spacing of the f32 values at the integer n: the least power of two u, from
\* u on, with n < 2^24 * u.
RECURSIVE f32_spacing(_, _)
f32_spacing(n, u) == IF n \div u < 2^24 THEN u ELSE f32_spacing(n, 2 * u)

\* `nanos as f32`: the nearest integer with a 24-bit mantissa.
u32_as_f32(n) == RoundToEven(n, f32_spacing(n, 1))

\* The f32 division by NANOS_PER_SEC = 2^9 * 5^9: quot and rem of n * pow / 5^9
\* are doubled until quot has the 24 bits of a mantissa (a power of two only
\* shifts the exponent); pow is kept up to 2^22, above which it is not needed.
RECURSIVE f32_div_nanos_per_sec(_, _, _)
f32_div_nanos_per_sec(quot, rem, pow) ==
    IF quot >= 2^23
    THEN [mant |-> IF 2 * rem > 5^9 THEN quot + 1 ELSE quot,
          excess |-> IF 2 * rem > 5^9 THEN 5^9 - rem ELSE -rem,
          pow |-> pow]
    ELSE f32_div_nanos_per_sec(2 * quot + (IF 2 * rem >= 5^9 THEN 1 ELSE 0),
                               (2 * rem) % 5^9,
                               Min(2 * pow, 2^22))

\* d.mul_f32(self.scale) of a Duration d below one second, scale being 1.0:
\* from_secs_f32(1.0 * d.as_secs_f32()), where as_secs_f32 is (nanos as f32) /
\* (NANOS_PER_SEC as f32) and from_secs_f32 rounds to the nearest nanosecond.
\* The quotient is mant / pow * 5^9 nanoseconds, which is the nanoseconds it was
\* formed from plus excess / pow.
mul_f32_scale(d) ==
    IF d = 0 THEN 0
    ELSE LET nanos == u32_as_f32(d)
             f == f32_div_nanos_per_sec(nanos \div 5^9, nanos % 5^9, 1)
             whole == nanos + (f.excess \div f.pow)
             part == f.excess % f.pow
         IN  IF 2 * part > f.pow \/ (2 * part = f.pow /\ whole % 2 = 1)
             THEN whole + 1
             ELSE whole

\* TimeSystem::new at the Instant now.
TimeSystem_new(now) ==
    [sim_time |-> 0, last_update |-> now, sim_accumulator |-> 0, fps_timer |-> now,
     fps_frame_count |-> 0, current_fps |-> 0, paused |-> FALSE]

\* A slip: the frame delta clamped to six ticks.
max_frame_dt_six == sim_dt * 6

\* "Prevent really high deltas": max_frame_dt = sim_dt * 5.
max_frame_dt == sim_dt * 5

\* A slip: > for >= in the loop test, a whole tick left in the accumulator.
RECURSIVE fixed_steps_late(_, _)
fixed_steps_late(self, sim_steps) ==
    IF self.sim_accumulator > sim_dt
    THEN fixed_steps_late([self EXCEPT !.sim_accumulator = @ - sim_dt, !.sim_time = @ + sim_dt],
                          sim_steps + 1)
    ELSE [self |-> self, sim_steps |-> sim_steps]

\* "Fixed-step simulation": the while loop of tick.
RECURSIVE fixed_steps(_, _)
fixed_steps(self, sim_steps) ==
    IF self.sim_accumulator >= sim_dt
    THEN fixed_steps([self EXCEPT !.sim_accumulator = @ - sim_dt, !.sim_time = @ + sim_dt],
                     sim_steps + 1)
    ELSE [self |-> self, sim_steps |-> sim_steps]

\* A slip: the accumulator kept by a paused tick.
tick_paused_keep(self) ==
    [self |-> self,
     ret |-> [sim_steps |-> 0, fps_update |-> <<>>, needs_redraw |-> FALSE, alpha |-> 0]]

\* tick while paused: "discard accumulated time and do nothing".
tick_paused(self) ==
    [self |-> [self EXCEPT !.sim_accumulator = 0],
     ret |-> [sim_steps |-> 0, fps_update |-> <<>>, needs_redraw |-> FALSE, alpha |-> 0]]

\* "FPS measurement": (fps_frame_count as f32 / elapsed).round(), elapsed at
\* least fps_dt, taken to the millisecond.
fps_of(frame_count, elapsed) == RDiv(frame_count * 1000, elapsed \div 1000000)

\* "Interpolation factor for rendering", in units of 1 / Scale.
alpha_of(accumulator) == Clamp(RDiv((accumulator \div 100) * Scale, sim_dt \div 100), 0, Scale)

\* tick while running, frame_dt having been taken and last_update set.
tick_running(self, now, frame_dt) ==
    LET clamped == Min(frame_dt, max_frame_dt)
        stepped == fixed_steps([self EXCEPT !.sim_accumulator = @ + mul_f32_scale(clamped)], 0)
        s1 == stepped.self
        fps_due == now - s1.fps_timer >= fps_dt
        fps == fps_of(s1.fps_frame_count + 1, now - s1.fps_timer)
        s2 == IF fps_due
              THEN [s1 EXCEPT !.current_fps = fps, !.fps_frame_count = 0, !.fps_timer = now]
              ELSE [s1 EXCEPT !.fps_frame_count = @ + 1]
    IN  [self |-> s2,
         ret |-> [sim_steps |-> stepped.sim_steps,
                  fps_update |-> IF fps_due THEN <<fps>> ELSE <<>>,
                  needs_redraw |-> stepped.sim_steps > 0 \/ fps_due,
                  alpha |-> alpha_of(s1.sim_accumulator)]]

\* TimeSystem::tick(now): the TimeSystem after it and what it returns.
TimeSystem_tick(self, now) ==
    LET frame_dt == now - self.last_update
        s0 == [self EXCEPT !.last_update = now]
    IN  IF self.paused THEN tick_paused(s0) ELSE tick_running(s0, now, frame_dt)

\* TimeSystem::toggle_pause, Instant::now() being now.
TimeSystem_toggle_pause(self, now) ==
    IF self.paused
    THEN [self EXCEPT !.paused = FALSE, !.last_update = now, !.fps_timer = now,
                      !.sim_accumulator = 0]
    ELSE [self EXCEPT !.paused = TRUE]

\* The real time that passes between two calls, in nanoseconds: none, less than
\* a tick, a tick, the largest frame delta, and a second.
Elapsed == {0, 3000000, 8000000, 40000000, 1000000000}

---------------------------------------------------------------------------
(* The state machine. *)

\* The number of index pairs i < j of n entities: the pair checks of one pass of
\* resolve_collisions.
PairCount(n) == (n * (n - 1)) \div 2

\* The updates counted so far have made fewer than MaxChecks pair checks.
WithinChecks == updates * collision_iterations * PairCount(Len(entities)) < MaxChecks

\* Every magnitude is within the range the model computes in.
Representable ==
    \A k \in 1..Len(entities) :
        /\ Abs(entities[k].position[1]) <= PosLimit
        /\ Abs(entities[k].position[2]) <= PosLimit
        /\ Abs(velocity_of(entities[k])[1]) <= VelLimit
        /\ Abs(velocity_of(entities[k])[2]) <= VelLimit

Init ==
    /\ entities = <<>>
    /\ dt \in DtSet
    /\ pc = "idle"
    /\ iter = 0
    /\ idx_i = 0
    /\ idx_j = 0
    /\ updates = 0
    /\ checks = 0
    /\ world0 = <<>>
    /\ before = <<>>
    /\ last = <<>>
    /\ impulses = <<>>
    /\ timing = TimeSystem_new(0)
    /\ clock = 0
    /\ calls = 0
    /\ ticked = <<>>
    /\ total_steps = 0
    /\ last_call = "new"
    /\ paused_at = 0
    /\ pause_len = 0

\* A slip: the entity put at the front of the Vec.
add_entity_front(entity) ==
    /\ pc = "idle"
    /\ updates = 0
    /\ Len(entities) < MaxEntities
    /\ entities' = <<entity>> \o entities
    /\ world0' = Append(world0, entity)
    /\ UNCHANGED <<dt, pc, iter, idx_i, idx_j, updates, checks, before, last, impulses>>
    /\ UNCHANGED tvars

\* World::add_entity, called while the world is set up.
add_entity(entity) ==
    /\ pc = "idle"
    /\ updates = 0
    /\ Len(entities) < MaxEntities
    /\ entities' = Append(entities, entity)
    /\ world0' = Append(world0, entity)
    /\ UNCHANGED <<dt, pc, iter, idx_i, idx_j, updates, checks, before, last, impulses>>
    /\ UNCHANGED tvars

\* update, PHASE 1 over all entities.  A world the last update left as it
\* found it is updated again however many updates were counted.
update_velocities ==
    /\ pc = "idle"
    /\ (updates < MaxUpdates /\ WithinChecks) \/ entities = before
    /\ Representable
    /\ entities' = [k \in 1..Len(entities) |-> integrate_velocity(entities[k], as_secs_f32(dt))]
    /\ before' = entities
    /\ last' = <<>>
    /\ checks' = 0
    /\ impulses' = <<>>
    /\ pc' = "position"
    /\ UNCHANGED <<dt, iter, idx_i, idx_j, updates, world0>>
    /\ UNCHANGED tvars

\* update, PHASE 2 over all entities, and the entry into PHASE 3.
update_positions ==
    /\ pc = "position"
    /\ Representable
    /\ entities' = [k \in 1..Len(entities) |-> integrate_position(entities[k], as_secs_f32(dt))]
    /\ pc' = "collide"
    /\ IF Len(entities) >= 2
       THEN iter' = 0 /\ idx_i' = 1 /\ idx_j' = 2
       ELSE iter' = collision_iterations /\ idx_i' = 0 /\ idx_j' = 0
    /\ UNCHANGED <<dt, updates, checks, world0, before, last, impulses>>
    /\ UNCHANGED tvars

\* resolve_collisions, one pass of the inner loop body: check the pair (i, j),
\* resolve a contact, and step the loops.
resolve_collisions_pair ==
    /\ pc = "collide"
    /\ iter < collision_iterations
    /\ Representable
    /\ LET collision_data == check_collision(entities[idx_i], entities[idx_j])
           res == IF collision_data = <<>>
                  THEN [entities |-> entities, panicked |-> FALSE]
                  ELSE resolve_collision_pair(entities, idx_i, idx_j,
                                              collision_data[1].normal, collision_data[1].depth)
           n == Len(entities)
       IN  /\ entities' = res.entities
           /\ last' = <<[i |-> idx_i, j |-> idx_j, iter |-> iter, pre |-> entities,
                         contact |-> collision_data]>>
           /\ checks' = checks + 1
           /\ impulses' = IF \E k \in {idx_i, idx_j} :
                                 velocity_of(res.entities[k]) # velocity_of(entities[k])
                           THEN Append(impulses, <<idx_i, idx_j>>)
                           ELSE impulses
           /\ IF res.panicked
              THEN pc' = "panicked" /\ UNCHANGED <<iter, idx_i, idx_j>>
              ELSE /\ pc' = "collide"
                   /\ IF idx_j < n
                      THEN iter' = iter /\ idx_i' = idx_i /\ idx_j' = idx_j + 1
                      ELSE IF idx_i + 1 < n
                      THEN iter' = iter /\ idx_i' = idx_i + 1 /\ idx_j' = idx_i + 2
                      ELSE iter' = iter + 1 /\ idx_i' = 1 /\ idx_j' = 2
    /\ UNCHANGED <<dt, updates, world0, before>>
    /\ UNCHANGED tvars

\* update returns after the last collision iteration.
update_return ==
    /\ pc = "collide"
    /\ iter = collision_iterations
    /\ pc' = "idle"
    /\ iter' = 0
    /\ idx_i' = 0
    /\ idx_j' = 0
    /\ updates' = IF updates < MaxUpdates /\ WithinChecks THEN updates + 1 ELSE updates
    /\ UNCHANGED <<entities, dt, checks, world0, before, last, impulses>>
    /\ UNCHANGED tvars

Next ==
    \/ \E entity \in Catalog : add_entity(entity)
    \/ update_velocities
    \/ update_positions
    \/ resolve_collisions_pair
    \/ update_return

Spec == Init /\ [][Next]_vars

\* The event loop calls tick(Instant::now()), elapsed after the previous call.
tick(elapsed) ==
    /\ calls < MaxCalls
    /\ elapsed <= MaxClock - clock
    /\ LET now == clock + elapsed
           res == TimeSystem_tick(timing, now)
       IN  /\ clock' = now
           /\ timing' = res.self
           /\ ticked' = <<[ret |-> res.ret, pre |-> timing, elapsed |-> elapsed,
                           after |-> last_call]>>
           /\ total_steps' = total_steps + res.ret.sim_steps
    /\ calls' = calls + 1
    /\ last_call' = "tick"
    /\ UNCHANGED <<paused_at, pause_len>>
    /\ UNCHANGED pvars

\* toggle_pause is called, elapsed after the previous call.
toggle_pause(elapsed) ==
    /\ calls < MaxCalls
    /\ elapsed <= MaxClock - clock
    /\ clock' = clock + elapsed
    /\ timing' = TimeSystem_toggle_pause(timing, clock + elapsed)
    /\ calls' = calls + 1
    /\ last_call' = IF timing.paused THEN "unpause" ELSE "pause"
    /\ paused_at' = IF timing.paused THEN paused_at ELSE clock + elapsed
    /\ pause_len' = IF timing.paused THEN clock + elapsed - paused_at ELSE pause_len
    /\ UNCHANGED <<ticked, total_steps>>
    /\ UNCHANGED pvars

TimeNext ==
    \/ \E elapsed \in Elapsed : tick(elapsed)
    \/ \E elapsed \in Elapsed : toggle_pause(elapsed)

\* The time system alone, the world left empty.
TimeSpec == Init /\ [][TimeNext]_vars

---------------------------------------------------------------------------
(* What the claims speak of. *)

\* A pair check has been made in this update, and entities is its outcome.
Checked == last # <<>>

\* The last pair check reported a contact, which was then resolved.
Contacted == last # <<>> /\ last[1].contact # <<>>

\* The exact inner product of two vectors (units 1/Scale^2).
Dot(u, v) == u[1] * v[1] + u[2] * v[2]

Minus(u, v) == <<u[1] - v[1], u[2] - v[2]>>

IsCircle(e) == e.shape.kind = "Circle"

\* An entity update never moves: no Physics, or dynamic = false.
Immovable(e) == ~has_physics(e) \/ ~physics(e).dynamic

\* A dynamic body the resolver can move: dynamic, of finite mass.
Movable(e) == has_physics(e) /\ physics(e).dynamic /\ is_finite(physics(e).mass)

\* The squared centre distance of two entities.
DistSq(a, b) == Dot(Minus(b.position, a.position), Minus(b.position, a.position))

\* The slop of the no-penetration property: 0.01.
Slop == Scale \div 100

---------------------------------------------------------------------------
(* C1 *)

\* C1: an entity without Physics, or with dynamic = false, keeps the position and
\* velocity it was added with through every update (the whole entity is compared);
\* a contact moves only a dynamic side, and a contact between two such entities
\* changes nothing in the world.
C1_ImmovableKept ==
    /\ \A k \in 1..Len(entities) : Immovable(world0[k]) => entities[k] = world0[k]
    /\ Contacted =>
          LET c == last[1]
          IN  /\ Immovable(c.pre[c.i]) => entities[c.i] = c.pre[c.i]
              /\ Immovable(c.pre[c.j]) => entities[c.j] = c.pre[c.j]
              /\ (Immovable(c.pre[c.i]) /\ Immovable(c.pre[c.j])) => entities = c.pre

\* A contact between an immovable entity that carries a velocity and a dynamic
\* one has been resolved, and the dynamic one was moved by it.
C1_Witness ==
    /\ Contacted
    /\ \E s, d \in {last[1].i, last[1].j} :
          /\ s # d
          /\ Immovable(last[1].pre[s])
          /\ velocity_of(last[1].pre[s]) # <<0, 0>>
          /\ ~Immovable(last[1].pre[d])
          /\ entities[d].position # last[1].pre[d].position

---------------------------------------------------------------------------
(* C2 *)

\* C2: when a contact with normal (1, 0) is resolved between A (lower index), a
\* dynamic circle of mass 1 and restitution 0.8 moving toward B, and B, a dynamic
\* circle of mass 1 and restitution 0.8 at rest, then afterwards A's velocity
\* along the normal is <= 0 and B's is > 0.
C2_HeadOnBounce ==
    (/\ Contacted
     /\ last[1].contact[1].normal = <<Scale, 0>>
     /\ LET a == last[1].pre[last[1].i]
            b == last[1].pre[last[1].j]
        IN  /\ IsCircle(a) /\ IsCircle(b)
            /\ Movable(a) /\ Movable(b)
            /\ physics(a).mass = Scale /\ physics(b).mass = Scale
            /\ physics(a).restitution = 8000 /\ physics(b).restitution = 8000
            /\ physics(a).velocity[1] > 0 /\ physics(a).velocity[2] = 0
            /\ physics(b).velocity = <<0, 0>>)
    => /\ velocity_of(entities[last[1].i])[1] <= 0
       /\ velocity_of(entities[last[1].j])[1] > 0

---------------------------------------------------------------------------
(* C3 *)

\* C3: when a contact is reported for a pair that is already moving apart along
\* the normal, i.e. (v_B - v_A) . normal >= 0 with the normal from A to B, its
\* resolution leaves both velocities as they were, in every collision iteration.
C3_SeparatingImpulseFree ==
    (/\ Contacted
     /\ LET a == last[1].pre[last[1].i]
            b == last[1].pre[last[1].j]
        IN  Dot(Minus(velocity_of(b), velocity_of(a)), last[1].contact[1].normal) >= 0)
    => /\ velocity_of(entities[last[1].i]) = velocity_of(last[1].pre[last[1].i])
       /\ velocity_of(entities[last[1].j]) = velocity_of(last[1].pre[last[1].j])

---------------------------------------------------------------------------
(* C4 *)

\* C4: when a contact is resolved between two dynamic circles of equal finite
\* mass, both of restitution 1 and friction 0, that approach each other along
\* the normal with no tangential velocity, their velocities along the normal are
\* swapped and the sum of their squared speeds is what it was.
C4_ElasticExchange ==
    (/\ Contacted
     /\ LET a == last[1].pre[last[1].i]
            b == last[1].pre[last[1].j]
            n == last[1].contact[1].normal
        IN  /\ IsCircle(a) /\ IsCircle(b)
            /\ Movable(a) /\ Movable(b)
            /\ physics(a).mass = physics(b).mass
            /\ physics(a).restitution = Scale /\ physics(b).restitution = Scale
            /\ physics(a).friction = 0 /\ physics(b).friction = 0
            /\ Dot(Minus(physics(a).velocity, physics(b).velocity), n) > 0
            /\ Dot(Minus(physics(a).velocity, physics(b).velocity), <<-n[2], n[1]>>) = 0)
    => LET va == velocity_of(last[1].pre[last[1].i])
           vb == velocity_of(last[1].pre[last[1].j])
           wa == velocity_of(entities[last[1].i])
           wb == velocity_of(entities[last[1].j])
           n == last[1].contact[1].normal
       IN  /\ Dot(wa, n) = Dot(vb, n)
           /\ Dot(wb, n) = Dot(va, n)
           /\ Dot(wa, wa) + Dot(wb, wb) = Dot(va, va) + Dot(vb, vb)

---------------------------------------------------------------------------
(* C5 *)

\* world0 is a static circle s and a dynamic circle d of finite mass, with zero
\* velocity and acceleration and gravity off, that start overlapping.
C5Pair(s, d) ==
    /\ IsCircle(world0[s]) /\ IsCircle(world0[d])
    /\ Immovable(world0[s])
    /\ Movable(world0[d])
    /\ physics(world0[d]).velocity = <<0, 0>>
    /\ physics(world0[d]).acceleration = <<0, 0>>
    /\ ~physics(world0[d]).apply_gravity
    /\ LET min_dist == world0[s].shape.radius + world0[d].shape.radius
       IN  DistSq(world0[s], world0[d]) < min_dist * min_dist

\* Such a world has been updated at least once.
C5Updated ==
    /\ updates >= 1
    /\ Len(world0) = 2
    /\ C5Pair(1, 2) \/ C5Pair(2, 1)

\* The centre distance of the two circles is at least r_a + r_b - slop, and at
\* most r_a + r_b + slop.
C5Settled ==
    LET min_dist == entities[1].shape.radius + entities[2].shape.radius
        dist_sq == DistSq(entities[1], entities[2])
    IN  /\ dist_sq >= (min_dist - Slop) * (min_dist - Slop)
        /\ dist_sq <= (min_dist + Slop) * (min_dist + Slop)

\* update last returned leaving the world exactly as it found it: the world is
\* at a fixed point, and every later update leaves it there.
AtFixedPoint == pc = "idle" /\ updates >= 1 /\ entities = before

---------------------------------------------------------------------------
(* C6 *)

\* A dynamic entity with gravity off, zero acceleration and a speed below the
\* sleep threshold.
C6Rest(e) ==
    /\ has_physics(e)
    /\ physics(e).dynamic
    /\ ~physics(e).apply_gravity
    /\ physics(e).acceleration = <<0, 0>>
    /\ Dot(physics(e).velocity, physics(e).velocity)
          < sleep_velocity_threshold * sleep_velocity_threshold

\* C6: in a world of one such entity, after one update and from then on, during
\* and after every further update, the velocity is exactly [0, 0] and the entity
\* is otherwise as it was added (its position included).
C6_IdempotentRest ==
    (Len(world0) = 1 /\ C6Rest(world0[1]) /\ updates >= 1)
    => entities = <<[world0[1] EXCEPT !.physics[1].velocity = <<0, 0>>]>>

\* Such an entity, added with a velocity that is not zero, has been updated twice.
C6_Witness ==
    /\ Len(world0) = 1
    /\ C6Rest(world0[1])
    /\ physics(world0[1]).velocity # <<0, 0>>
    /\ pc = "idle"
    /\ updates >= 2

---------------------------------------------------------------------------
(* C7 *)

\* C7: for every reported contact the normal points from A (lower index) toward
\* B, and the positional correction moves a dynamic B that faces an immovable A
\* away from A, never toward it (and a dynamic A away from an immovable B).
C7_NormalFromAToB ==
    Contacted =>
       LET a == last[1].pre[last[1].i]
           b == last[1].pre[last[1].j]
           ab == Minus(b.position, a.position)
           n == last[1].contact[1].normal
       IN  /\ Dot(n, ab) >= 0
           /\ (Immovable(a) /\ Movable(b))
                 => Dot(Minus(entities[last[1].j].position, b.position), ab) >= 0
           /\ (Movable(a) /\ Immovable(b))
                 => Dot(Minus(entities[last[1].i].position, a.position), ab) <= 0

---------------------------------------------------------------------------
(* C8 *)

\* C8: with a static rectangle 0.4 x 0.4 at (0, 0) as entity A and a dynamic
\* circle of radius 0.1 with gravity, started at (0, 0.35), as entity B, a pair
\* check made while the circle's centre is above the rectangle's top edge and
\* its bottom edge below it reports a contact, with normal (0, 1).
C8_CircleOnRectangle ==
    (/\ Checked
     /\ world0 = <<StaticRect, Falling>>
     /\ last[1].pre[2].position[2] >= 2000
     /\ last[1].pre[2].position[2] - 1000 < 2000)
    => /\ last[1].contact # <<>>
       /\ last[1].contact[1].normal = <<0, Scale>>

---------------------------------------------------------------------------
(* C9 *)

\* C9: update never panics, and when it has returned it has made exactly
\* collision_iterations * n * (n - 1) / 2 pair checks, n the number of entities.
C9_UpdateCompletes ==
    /\ pc # "panicked"
    /\ (pc = "idle" /\ updates >= 1)
          => checks = collision_iterations * ((Len(entities) * (Len(entities) - 1)) \div 2)

---------------------------------------------------------------------------
(* C10 *)

\* C10: a pair check of two entities that both lack Physics reports no contact,
\* and an entity without Physics stays as it was added.
C10_NoPhysicsNoContact ==
    /\ Checked =>
          ((~has_physics(last[1].pre[last[1].i]) /\ ~has_physics(last[1].pre[last[1].j]))
              => last[1].contact = <<>>)
    /\ \A k \in 1..Len(entities) : ~has_physics(world0[k]) => entities[k] = world0[k]

\* Two entities without Physics whose shapes overlap have been checked, in a
\* world that has been updated before.
C10_Witness ==
    /\ Checked
    /\ updates >= 1
    /\ ~has_physics(last[1].pre[last[1].i])
    /\ ~has_physics(last[1].pre[last[1].j])
    /\ shape_pair_contact(last[1].pre[last[1].i], last[1].pre[last[1].j]) # <<>>

---------------------------------------------------------------------------
(* C11 *)

IsText(e) == e.shape.kind = "Text"

\* C11: a pair check in which at least one shape is Text reports no contact and
\* changes no entity, whatever Physics the Text entity carries; and when update
\* has returned, a Text entity is what the two integration phases made of it.
C11_TextExcluded ==
    /\ Checked =>
          ((IsText(last[1].pre[last[1].i]) \/ IsText(last[1].pre[last[1].j]))
              => last[1].contact = <<>> /\ entities = last[1].pre)
    /\ (pc = "idle" /\ updates >= 1) =>
          \A k \in 1..Len(entities) :
              IsText(before[k]) =>
                  entities[k] = integrate_position(
                                    integrate_velocity(before[k], as_secs_f32(dt)),
                                    as_secs_f32(dt))

\* A moving Text entity with a dynamic Physics has been checked against a circle
\* with Physics whose disc contains the Text's position, after an earlier update.
C11_Witness ==
    /\ Checked
    /\ updates >= 1
    /\ \E t, c \in {last[1].i, last[1].j} :
          /\ IsText(last[1].pre[t])
          /\ Movable(last[1].pre[t])
          /\ last[1].pre[t].position # world0[t].position
          /\ IsCircle(last[1].pre[c])
          /\ has_physics(last[1].pre[c])
          /\ DistSq(last[1].pre[t], last[1].pre[c])
                < last[1].pre[c].shape.radius * last[1].pre[c].shape.radius

---------------------------------------------------------------------------
(* C12 *)

\* C12: within one update call no pair of entity indices has its velocities
\* changed by the resolver more than once, over all collision iterations.
C12_ImpulseOncePerFrame ==
    \A m, n \in 1..Len(impulses) : m # n => impulses[m] # impulses[n]

---------------------------------------------------------------------------
(* C13 *)

\* The separation the last resolution applied to the pair along the normal,
\* (move of B - move of A) . normal, in units 1/Scale^2.
SeparationApplied ==
    LET c == last[1]
    IN  Dot(Minus(Minus(entities[c.j].position, c.pre[c.j].position),
                  Minus(entities[c.i].position, c.pre[c.i].position)),
            c.contact[1].normal)

\* The correction percentage of the positional correction: 0.8.
CorrectionPercent == (4 * Scale) \div 5

\* C13: when a contact of depth d is resolved for a pair with total inverse mass
\* > 0 (a side that is dynamic with finite mass), the separation applied along the
\* normal is 0.8 * max(d - 0.01, 0), to within 0.0003; for d <= 0.01 no position
\* moves.
C13_CorrectionMagnitude ==
    (Contacted /\ (Movable(last[1].pre[last[1].i]) \/ Movable(last[1].pre[last[1].j])))
    => LET d == last[1].contact[1].depth
           expected == FMul(CorrectionPercent, IF d > Slop THEN d - Slop ELSE 0)
       IN  /\ Abs(SeparationApplied - expected * Scale) <= 3 * Scale
           /\ d <= Slop =>
                 \A k \in 1..Len(entities) : entities[k].position = last[1].pre[k].position

---------------------------------------------------------------------------
(* C14 *)

\* The move the last resolution gave entity k: its position after, minus before.
MoveOf(k) == Minus(entities[k].position, last[1].pre[k].position)

\* u and v are parallel to within the rounding of one unit per component.
Parallel(u, v) == Abs(u[1] * v[2] - u[2] * v[1]) <= Abs(v[1]) + Abs(v[2])

\* C14: when a contact is resolved, A moves along -normal and B along +normal; a
\* side with inverse mass 0 does not move; when both sides have a positive
\* inverse mass the two moves are in the proportion inv_mass_a : inv_mass_b, i.e.
\* move_a * mass_a = -(move_b * mass_b) to within the rounding of one unit per
\* side; and the correction step leaves every velocity and acceleration (the whole
\* Physics) as it was, the positions it produces being the final ones.
C14_CorrectionSplit ==
    Contacted =>
       LET c == last[1]
           a == c.pre[c.i]
           b == c.pre[c.j]
           n == c.contact[1].normal
           corrected == position_correction(c.pre, c.i, c.j, n, c.contact[1].depth)
       IN  /\ Dot(MoveOf(c.i), n) <= 0 /\ Parallel(MoveOf(c.i), n)
           /\ Dot(MoveOf(c.j), n) >= 0 /\ Parallel(MoveOf(c.j), n)
           /\ ~Movable(a) => MoveOf(c.i) = <<0, 0>>
           /\ ~Movable(b) => MoveOf(c.j) = <<0, 0>>
           /\ (Movable(a) /\ Movable(b)) =>
                 \A x \in 1..2 :
                     Abs(MoveOf(c.i)[x] * physics(a).mass + MoveOf(c.j)[x] * physics(b).mass)
                        <= physics(a).mass + physics(b).mass
           /\ \A k \in 1..Len(entities) :
                 /\ corrected[k].physics = c.pre[k].physics
                 /\ corrected[k].position = entities[k].position

\* A contact between two dynamic bodies of different finite mass has been
\* resolved, and both were moved.
C14_Witness ==
    /\ Contacted
    /\ Movable(last[1].pre[last[1].i])
    /\ Movable(last[1].pre[last[1].j])
    /\ physics(last[1].pre[last[1].i]).mass # physics(last[1].pre[last[1].j]).mass
    /\ MoveOf(last[1].i) # <<0, 0>>
    /\ MoveOf(last[1].j) # <<0, 0>>

---------------------------------------------------------------------------
(* C15 *)

\* The place of the pair (i, j) in the ascending order of the pairs of n entities.
PairRank(i, j, n) ==
    Cardinality({q \in (1..n) \X (1..n) :
                    q[1] < q[2] /\ (q[1] < i \/ (q[1] = i /\ q[2] <= j))})

\* The phases in their order: after phase 1 the world is phase 1 of the world the
\* update began with; phase 3 begins with phase 2 of that; the k-th pair check of
\* an update is the check of the pair of rank k - 4 * (its pass) in pass
\* 0, 1, 2 or 3, so every pass visits every pair once, in ascending order; and
\* update returns after exactly 4 passes.
PhaseOrderKept ==
    LET n == Len(entities)
        dt_secs == as_secs_f32(dt)
        phase1 == [k \in 1..n |-> integrate_velocity(before[k], dt_secs)]
        phase2 == [k \in 1..n |-> integrate_position(phase1[k], dt_secs)]
    IN  /\ pc = "position" => entities = phase1
        /\ (pc = "collide" /\ checks = 0) => entities = phase2
        /\ (pc \in {"collide", "panicked"} /\ checks > 0) =>
              /\ Checked
              /\ last[1].i < last[1].j
              /\ last[1].iter \in 0..(collision_iterations - 1)
              /\ checks = last[1].iter * PairCount(n) + PairRank(last[1].i, last[1].j, n)
        /\ (pc = "idle" /\ updates >= 1) => checks = collision_iterations * PairCount(n)

\* A pair check runs detection on the entities current at that moment, and the
\* contact it finds is resolved in the same step, before the next pair is looked at.
PairStepInPlace ==
    (checks' = checks + 1) =>
        /\ last'[1].pre = entities
        /\ last'[1].contact = check_collision(entities[last'[1].i], entities[last'[1].j])
        /\ (last'[1].contact = <<>>) => entities' = entities
        /\ (last'[1].contact # <<>>) =>
              entities' = resolve_collision_pair(entities, last'[1].i, last'[1].j,
                                                 last'[1].contact[1].normal,
                                                 last'[1].contact[1].depth).entities

\* C15: every update call goes through velocity integration, position
\* integration and exactly 4 collision passes in this order, each pass visiting
\* every pair i < j once in ascending order, detecting on the current positions
\* and resolving a contact before the next pair; no call stops short of that.
C15_PhaseOrder ==
    /\ [](PhaseOrderKept /\ pc # "panicked")
    /\ [][PairStepInPlace]_vars

\* The order alone, of the calls that run on.
OrderWhileRunning == [](PhaseOrderKept) /\ [][PairStepInPlace]_vars

---------------------------------------------------------------------------
(* C16 *)

\* Phase 1 of some update has been completed: the program is past it, or an
\* update has returned.
IntegratedOnce == pc # "idle" \/ updates >= 1

\* C16 as stated: once phase 1 of an update has been completed, and so after
\* every update call, the acceleration of every entity with Physics is [0, 0].
C16_AccelerationResetAll ==
    IntegratedOnce =>
        \A k \in 1..Len(entities) :
            has_physics(entities[k]) => physics(entities[k]).acceleration = <<0, 0>>

\* C16 amended: once phase 1 of an update has been completed, the acceleration
\* of every entity whose Physics is dynamic is [0, 0]; an entity whose Physics is
\* not dynamic is skipped by phase 1 and keeps the acceleration it was added with.
C16_AccelerationReset ==
    IntegratedOnce =>
        \A k \in 1..Len(entities) :
            has_physics(entities[k]) =>
                IF physics(entities[k]).dynamic
                THEN physics(entities[k]).acceleration = <<0, 0>>
                ELSE physics(entities[k]).acceleration = physics(world0[k]).acceleration

\* A dynamic entity added with an acceleration has been through two updates:
\* the acceleration changed its velocity and is now zero.
C16_Witness ==
    /\ pc = "idle"
    /\ updates >= 2
    /\ \E k \in 1..Len(entities) :
          /\ has_physics(entities[k])
          /\ physics(entities[k]).dynamic
          /\ physics(world0[k]).acceleration # <<0, 0>>
          /\ physics(entities[k]).velocity # physics(world0[k]).velocity
          /\ physics(entities[k]).acceleration = <<0, 0>>

---------------------------------------------------------------------------
(* C17 *)

\* C17: a resolution that gets to the divisions by the total inverse mass (the
\* impulse magnitude j, the friction impulse) is one of a pair whose total
\* inverse mass is > 0.
C17_GuardedDivision ==
    (Contacted /\ reaches_impulse(last[1].pre, last[1].i, last[1].j, last[1].contact[1].normal))
    => total_inv_mass_of(last[1].pre, last[1].i, last[1].j) > 0

---------------------------------------------------------------------------
(* C18 *)

\* The side s of the last pair check has a mass that is not finite (an entity
\* without Physics counts with the fallback mass, infinity).
InfiniteSide(s) == ~is_finite(mass_of(last[1].pre[s]))

\* C18: when a contact is resolved, a side whose mass is not finite is left
\* exactly as it was, position and velocity, dynamic or not; and if the other
\* side has a positive inverse mass, that side is the one moved (for a depth of
\* at least 2 units of the model's resolution).
C18_InfiniteMassExcluded ==
    Contacted =>
        \A s, o \in {last[1].i, last[1].j} :
            (s # o /\ InfiniteSide(s)) =>
                /\ entities[s] = last[1].pre[s]
                /\ (Movable(last[1].pre[o]) /\ last[1].contact[1].depth >= 2)
                      => MoveOf(o) # <<0, 0>>

\* A contact between a dynamic entity of infinite mass and a dynamic entity of
\* finite mass has been resolved, and the latter was moved.
C18_Witness ==
    /\ Contacted
    /\ \E s, o \in {last[1].i, last[1].j} :
          /\ s # o
          /\ has_physics(last[1].pre[s])
          /\ physics(last[1].pre[s]).dynamic
          /\ InfiniteSide(s)
          /\ Movable(last[1].pre[o])
          /\ MoveOf(o) # <<0, 0>>

---------------------------------------------------------------------------
(* C19 *)

\* What C19 says of the result found for circles a and b: a contact exactly when
\* 1e-4 < dist^2 < (r_a + r_b)^2; then, with dist = (r_a + r_b) - depth, dist is
\* the centre distance (dist^2 = dist_sq to within the rounding of dist by half a
\* unit) and normal * dist = B - A (to within the rounding of the normal).
CircleContactAsStated(a, b, found) ==
    LET d == Minus(b.position, a.position)
        dist_sq == Dot(d, d)
        min_dist == a.shape.radius + b.shape.radius
    IN  /\ (found # <<>>) <=> (dist_sq > (Scale * Scale) \div 10000 /\ dist_sq < min_dist * min_dist)
        /\ (found # <<>>) =>
              LET dist == min_dist - found[1].depth
                  n == found[1].normal
              IN  /\ dist > 0
                  /\ Abs(dist * dist - dist_sq) <= dist
                  /\ Abs(n[1] * dist - d[1] * Scale) <= dist
                  /\ Abs(n[2] * dist - d[2] * Scale) <= dist

\* C19: check_circle_circle, applied between updates to any two circles of the
\* world in either order, gives the result stated; and the contact a pair check
\* reports for two circles of which one has Physics is that result.
C19_CircleCircleDetection ==
    /\ \A i, j \in 1..Len(entities) :
          (pc = "idle" /\ i # j /\ IsCircle(entities[i]) /\ IsCircle(entities[j])) =>
              CircleContactAsStated(entities[i], entities[j],
                  check_circle_circle(entities[i].position, entities[i].shape.radius,
                                      entities[j].position, entities[j].shape.radius))
    /\ Checked =>
          LET a == last[1].pre[last[1].i]
              b == last[1].pre[last[1].j]
          IN  (IsCircle(a) /\ IsCircle(b) /\ (has_physics(a) \/ has_physics(b)))
                  => CircleContactAsStated(a, b, last[1].contact)

\* A pair check of two circles, after an earlier update, has reported a contact
\* whose normal lies off both axes.
C19_Witness ==
    /\ Contacted
    /\ updates >= 1
    /\ IsCircle(last[1].pre[last[1].i])
    /\ IsCircle(last[1].pre[last[1].j])
    /\ last[1].contact[1].normal[1] # 0
    /\ last[1].contact[1].normal[2] # 0

---------------------------------------------------------------------------
(* C20 *)

IsRectangle(e) == e.shape.kind = "Rectangle"

\* The contact found, with its normal negated component by component.
Mirrored(found) ==
    IF found = <<>> THEN <<>>
    ELSE <<[normal |-> <<0 - found[1].normal[1], 0 - found[1].normal[2]>>,
            depth |-> found[1].depth]>>

\* C20: for every rectangle r and circle c of the world between updates,
\* check_collision(r, c) is check_collision(c, r) with the normal negated: a
\* contact for the one iff for the other, with the same depth; and the contact a
\* pair check reports for a rectangle and a circle, in either order, is the
\* mirror of what check_collision gives for the two in the other order.
C20_RectCircleMirror ==
    /\ \A i, j \in 1..Len(entities) :
          (pc = "idle" /\ IsRectangle(entities[i]) /\ IsCircle(entities[j])) =>
              check_collision(entities[i], entities[j])
                 = Mirrored(check_collision(entities[j], entities[i]))
    /\ Checked =>
          LET a == last[1].pre[last[1].i]
              b == last[1].pre[last[1].j]
          IN  ((IsRectangle(a) /\ IsCircle(b)) \/ (IsCircle(a) /\ IsRectangle(b)))
                  => last[1].contact = Mirrored(check_collision(b, a))

\* A pair check of a rectangle (A) and a circle (B) that has moved since it was
\* added has reported a contact, after an earlier update.
C20_Witness ==
    /\ Contacted
    /\ updates >= 1
    /\ IsRectangle(last[1].pre[last[1].i])
    /\ IsCircle(last[1].pre[last[1].j])
    /\ last[1].pre[last[1].j].position # world0[last[1].j].position

---------------------------------------------------------------------------
(* C21 *)

\* The sign of x as a unit component: Scale, -Scale, or either for x = 0.
SignedUnit(c, x) == IF x > 0 THEN c = Scale ELSE IF x < 0 THEN c = -Scale ELSE Abs(c) = Scale

\* What C21 says of the result found for rectangles a and b, with the overlaps
\* doubled so that no half is taken: a contact exactly when both overlaps are
\* > 0; then the normal is along the axis of the smaller overlap (y on a tie),
\* signed as B - A is on that axis, and the depth is that overlap.
RectContactAsStated(a, b, found) ==
    LET d == Minus(b.position, a.position)
        twice_x == (a.shape.length + b.shape.length) - 2 * Abs(d[1])
        twice_y == (a.shape.height + b.shape.height) - 2 * Abs(d[2])
    IN  /\ (found # <<>>) <=> (twice_x > 0 /\ twice_y > 0)
        /\ (found # <<>>) =>
              LET n == found[1].normal
              IN  IF twice_x < twice_y
                  THEN n[2] = 0 /\ SignedUnit(n[1], d[1]) /\ 2 * found[1].depth = twice_x
                  ELSE n[1] = 0 /\ SignedUnit(n[2], d[2]) /\ 2 * found[1].depth = twice_y

\* C21: check_rect_rect, applied between updates to any two rectangles of the
\* world in either order, gives the result stated; and the contact a pair check
\* reports for two rectangles of which one has Physics is that result.
C21_RectRectDetection ==
    /\ \A i, j \in 1..Len(entities) :
          (pc = "idle" /\ i # j /\ IsRectangle(entities[i]) /\ IsRectangle(entities[j])) =>
              RectContactAsStated(entities[i], entities[j],
                  check_rect_rect(entities[i].position, entities[i].shape.length,
                                  entities[i].shape.height,
                                  entities[j].position, entities[j].shape.length,
                                  entities[j].shape.height))
    /\ Checked =>
          LET a == last[1].pre[last[1].i]
              b == last[1].pre[last[1].j]
          IN  (IsRectangle(a) /\ IsRectangle(b) /\ (has_physics(a) \/ has_physics(b)))
                  => RectContactAsStated(a, b, last[1].contact)

\* A pair check of two rectangles, after an earlier update, has reported a
\* contact along the x axis, the overlap on x being the smaller one.
C21_Witness ==
    /\ Contacted
    /\ updates >= 1
    /\ IsRectangle(last[1].pre[last[1].i])
    /\ IsRectangle(last[1].pre[last[1].j])
    /\ last[1].contact[1].normal[1] # 0

---------------------------------------------------------------------------
(* C22 *)

\* Twice the distance from the circle's centre to the rectangle's edge on axis
\* x (1) or y (2): extent - 2 * |offset|; negative when the centre is outside.
TwiceToEdge(c, r, x) ==
    (IF x = 1 THEN r.shape.length ELSE r.shape.height) - 2 * Abs(c.position[x] - r.position[x])

\* The circle's centre is inside the rectangle or on its boundary, or no more
\* than margin outside it on either axis.
CentreWithin(c, r, margin) ==
    TwiceToEdge(c, r, 1) >= -2 * margin /\ TwiceToEdge(c, r, 2) >= -2 * margin

\* found is a contact along axis x with the sign of the side of the rectangle's
\* centre the circle's centre is on, and depth radius + distance-to-edge.
AxisContact(c, r, found, x) ==
    /\ found # <<>>
    /\ found[1].normal[3 - x] = 0
    /\ SignedUnit(found[1].normal[x], c.position[x] - r.position[x])
    /\ 2 * found[1].depth = 2 * c.shape.radius + TwiceToEdge(c, r, x)

\* The first half of C22, of circle c and rectangle r: with the centre inside
\* the rectangle or on its boundary, check_circle_rect reports a contact along
\* the axis with the smaller distance-to-edge (either axis on a tie).
InsideContactAsStated(c, r) ==
    LET found == check_circle_rect(c.position, c.shape.radius, r.position,
                                   r.shape.length, r.shape.height)
    IN  CentreWithin(c, r, 0) =>
           IF TwiceToEdge(c, r, 1) < TwiceToEdge(c, r, 2) THEN AxisContact(c, r, found, 1)
           ELSE IF TwiceToEdge(c, r, 2) < TwiceToEdge(c, r, 1) THEN AxisContact(c, r, found, 2)
           ELSE AxisContact(c, r, found, 1) \/ AxisContact(c, r, found, 2)

\* The inside branch is taken for circle c and rectangle r.
InsideBranch(c, r) ==
    circle_rect_inside_branch(c.position, c.shape.radius, r.position,
                              r.shape.length, r.shape.height)

\* The circle and the rectangle of the last pair check, when it was of one of each.
CheckedCircleRect(c, r) ==
    /\ Checked
    /\ {c, r} = {last[1].i, last[1].j}
    /\ IsCircle(last[1].pre[c])
    /\ IsRectangle(last[1].pre[r])

---------------------------------------------------------------------------
(* C23 *)

\* The velocity change of entity k in the last pair step.
VelocityChangeOf(k) == Minus(velocity_of(entities[k]), velocity_of(last[1].pre[k]))

\* The last pair step changed a velocity: an impulse was applied.
ImpulseApplied ==
    /\ Contacted
    /\ \E k \in {last[1].i, last[1].j} : VelocityChangeOf(k) # <<0, 0>>

\* m_a * dv_a + m_b * dv_b on axis x, in units of 1 / Scale^2.
MomentumChange(x) ==
    mass_of(last[1].pre[last[1].i]) * VelocityChangeOf(last[1].i)[x]
       + mass_of(last[1].pre[last[1].j]) * VelocityChangeOf(last[1].j)[x]

\* C23: when a pair step applies an impulse to two dynamic entities of finite
\* mass, m_a * dv_a + m_b * dv_b is 0 on both axes (to the rounding of the two
\* velocity changes: half a unit of velocity each, weighted by the mass); and a
\* side whose inverse mass is 0 keeps its velocity in every pair step.
C23_MomentumConserved ==
    Checked =>
        /\ (ImpulseApplied /\ Movable(last[1].pre[last[1].i]) /\ Movable(last[1].pre[last[1].j]))
              => \A x \in 1..2 :
                    2 * Abs(MomentumChange(x))
                       <= mass_of(last[1].pre[last[1].i]) + mass_of(last[1].pre[last[1].j])
        /\ \A k \in {last[1].i, last[1].j} :
              ~Movable(last[1].pre[k]) => VelocityChangeOf(k) = <<0, 0>>

\* An impulse has been applied, after an earlier update, to two dynamic entities
\* of different finite masses, changing both velocities.
C23_Witness ==
    /\ ImpulseApplied
    /\ updates >= 1
    /\ Movable(last[1].pre[last[1].i])
    /\ Movable(last[1].pre[last[1].j])
    /\ mass_of(last[1].pre[last[1].i]) # mass_of(last[1].pre[last[1].j])
    /\ VelocityChangeOf(last[1].i) # <<0, 0>>
    /\ VelocityChangeOf(last[1].j) # <<0, 0>>

---------------------------------------------------------------------------
(* C24 *)

\* The velocity C24 states for a dynamic entity e after one update of dt_secs:
\* damping * (v + (a + gravity if apply_gravity else a) * dt), or [0,0] when its
\* squared speed is below threshold^2.
SteppedVelocity(e, dt_secs) ==
    LET p == physics(e)
        a == IF p.apply_gravity
             THEN <<p.acceleration[1] + gravity[1], p.acceleration[2] + gravity[2]>>
             ELSE p.acceleration
        v == <<FMul(p.velocity[1] + FMul(a[1], dt_secs), air_damping),
               FMul(p.velocity[2] + FMul(a[2], dt_secs), air_damping)>>
    IN  IF Dot(v, v) < sleep_velocity_threshold * sleep_velocity_threshold
        THEN <<0, 0>>
        ELSE v

\* The position C24 states: p + v_new * dt with the velocity already updated.
SteppedPosition(e, dt_secs) ==
    <<e.position[1] + FMul(SteppedVelocity(e, dt_secs)[1], dt_secs),
      e.position[2] + FMul(SteppedVelocity(e, dt_secs)[2], dt_secs)>>

\* Entity e as C24 states it after the integration of one update.
Stepped(e, dt_secs) ==
    IF has_physics(e) /\ physics(e).dynamic
    THEN [e EXCEPT !.position = SteppedPosition(e, dt_secs)]
    ELSE e

\* after is before as C24 states it: the velocity and position stated for a
\* dynamic entity, the velocity and position it had for any other.
SteppedAsStated(e, after, dt_secs) ==
    /\ after.position = Stepped(e, dt_secs).position
    /\ has_physics(e) =>
          velocity_of(after) = IF physics(e).dynamic THEN SteppedVelocity(e, dt_secs)
                               ELSE physics(e).velocity

\* No two of the entities of the update are in contact once integrated as stated.
NoContactOnceStepped ==
    \A m, n \in 1..Len(before) :
        m < n => check_collision(Stepped(before[m], as_secs_f32(dt)),
                                 Stepped(before[n], as_secs_f32(dt))) = <<>>

\* C24: when the two integration phases of an update are done and no pair has
\* been checked yet, every entity has the velocity and the position stated; and
\* after an update in which no two entities were in contact, they still have.
C24_IntegrationStep ==
    /\ (pc = "collide" /\ checks = 0) =>
          \A k \in 1..Len(entities) :
              SteppedAsStated(before[k], entities[k], as_secs_f32(dt))
    /\ (pc = "idle" /\ updates >= 1 /\ NoContactOnceStepped) =>
          \A k \in 1..Len(entities) :
              SteppedAsStated(before[k], entities[k], as_secs_f32(dt))

\* A second update has returned in which nothing was in contact, a dynamic
\* entity under gravity moved and an entity that is not dynamic had a velocity.
C24_Witness ==
    /\ pc = "idle"
    /\ updates >= 2
    /\ NoContactOnceStepped
    /\ \E k \in 1..Len(entities) :
          /\ Movable(before[k])
          /\ physics(before[k]).apply_gravity
          /\ entities[k].position # before[k].position
    /\ \E k \in 1..Len(entities) :
          /\ has_physics(before[k])
          /\ ~physics(before[k]).dynamic
          /\ physics(before[k]).velocity # <<0, 0>>

---------------------------------------------------------------------------
(* C25 *)

\* The relative velocity of the pair of the last pair step along the contact
\* normal, in units of 1 / Scale^2, in the entities ents.
NormalSpeed(ents) ==
    Dot(Minus(velocity_of(ents[last[1].j]), velocity_of(ents[last[1].i])),
        last[1].contact[1].normal)

\* Both restitution coefficients of the pair of the last pair step are in [0,1].
RestitutionInRange ==
    \A k \in {last[1].i, last[1].j} :
        restitution_of(last[1].pre[k]) >= 0 /\ restitution_of(last[1].pre[k]) <= Scale

\* C25: resolving a contact, with restitution coefficients in [0,1], never
\* increases the magnitude of the pair's relative velocity along the contact
\* normal (beyond the rounding of the velocities: two units).
C25_NeverAmplifies ==
    (Contacted /\ RestitutionInRange) =>
        Abs(NormalSpeed(entities)) <= Abs(NormalSpeed(last[1].pre)) + 2 * Scale

---------------------------------------------------------------------------
(* C26 *)

\* Entities a and b are of the same kind: two circles or two rectangles.
SameKind(a, b) == (IsCircle(a) /\ IsCircle(b)) \/ (IsRectangle(a) /\ IsRectangle(b))

\* The contacts found for (a, b) and for (b, a) mirror each other: both none, or
\* both some with equal depth and exactly opposite normals.
Antisymmetric(a, b) ==
    LET ab == check_collision(a, b)
        ba == check_collision(b, a)
    IN  /\ (ab = <<>>) = (ba = <<>>)
        /\ ab # <<>> =>
              /\ ab[1].depth = ba[1].depth
              /\ ab[1].normal = <<-ba[1].normal[1], -ba[1].normal[2]>>

\* Rectangles a and b are in contact with their centres level on the axis of
\* the reported normal: the centre-to-centre offset on that axis is exactly 0.
LevelOnNormalAxis(a, b) ==
    LET ab == check_collision(a, b)
    IN  /\ IsRectangle(a)
        /\ IsRectangle(b)
        /\ ab # <<>>
        /\ \E x \in 1..2 : ab[1].normal[x] # 0 /\ a.position[x] = b.position[x]

\* The pairs C26 is checked of: every ordered pair of the world between updates,
\* and the pair of every pair check as it was checked.
DetectionPairs ==
    (IF pc = "idle"
     THEN {<<entities[q[1]], entities[q[2]]>> :
              q \in {r \in (1..Len(entities)) \X (1..Len(entities)) : r[1] # r[2]}}
     ELSE {})
    \cup (IF Checked
          THEN {<<last[1].pre[last[1].i], last[1].pre[last[1].j]>>}
          ELSE {})

\* C26 as stated: detection is antisymmetric for every pair of two circles and
\* every pair of two rectangles.
C26_Antisymmetric ==
    \A pr \in DetectionPairs :
        SameKind(pr[1], pr[2]) => Antisymmetric(pr[1], pr[2])

\* C26 amended: detection is antisymmetric for every pair of two circles, and
\* for every pair of two rectangles but those in contact with their centres
\* level on the axis of the normal, for which both orders report the same
\* contact, along the negative direction of that axis.
C26_AntisymmetricOffLevel ==
    \A pr \in DetectionPairs :
        SameKind(pr[1], pr[2]) =>
            IF LevelOnNormalAxis(pr[1], pr[2])
            THEN /\ check_collision(pr[1], pr[2]) = check_collision(pr[2], pr[1])
                 /\ check_collision(pr[1], pr[2])[1].normal \in {<<-Scale, 0>>, <<0, -Scale>>}
            ELSE Antisymmetric(pr[1], pr[2])

\* A pair check has been made, after an earlier update, of two circles in
\* contact with a normal off both axes.
C26_Witness ==
    /\ Contacted
    /\ updates >= 1
    /\ IsCircle(last[1].pre[last[1].i])
    /\ IsCircle(last[1].pre[last[1].j])
    /\ last[1].contact[1].normal[1] # 0
    /\ last[1].contact[1].normal[2] # 0

---------------------------------------------------------------------------
(* C27 *)

\* The last call was a tick, and timing is the TimeSystem it left.
JustTicked == ticked # <<>> /\ last_call = "tick"

\* C27: a tick of a paused TimeSystem returns 0 simulation steps, no FPS update,
\* needs_redraw = false and alpha = 0, and leaves the accumulator at zero and
\* sim_time as it was, whatever real time has elapsed.
C27_PausedTickIdle ==
    (JustTicked /\ ticked[1].pre.paused) =>
        /\ ticked[1].ret = [sim_steps |-> 0, fps_update |-> <<>>,
                            needs_redraw |-> FALSE, alpha |-> 0]
        /\ timing.sim_accumulator = 0
        /\ timing.sim_time = ticked[1].pre.sim_time
        /\ timing.paused

\* A paused TimeSystem holding accumulated time has been ticked a second, the
\* FPS interval, after the previous call.
C27_Witness ==
    /\ JustTicked
    /\ ticked[1].pre.paused
    /\ ticked[1].pre.sim_accumulator > 0
    /\ ticked[1].elapsed >= fps_dt

---------------------------------------------------------------------------
(* C28 *)

\* C28: after any sequence of tick and toggle_pause calls sim_time is sim_dt
\* times the sum of the simulation steps the ticks returned, and after every
\* tick the accumulator is strictly less than sim_dt.
C28_SimTimeBookkeeping ==
    /\ timing.sim_time = sim_dt * total_steps
    /\ JustTicked => timing.sim_accumulator < sim_dt

\* Ticks have returned five steps or more in all, a pause has come and gone, and
\* the last tick consumed exactly the accumulator it found plus its frame.
C28_Witness ==
    /\ JustTicked
    /\ total_steps >= 5
    /\ pause_len > 0
    /\ ticked[1].ret.sim_steps >= 1
    /\ timing.sim_accumulator = 0

---------------------------------------------------------------------------
(* C29 *)

\* C29: a tick returns at most 5 simulation steps however much real time has
\* elapsed; and the first tick after unpausing returns no more steps than the
\* (clamped, scaled) time elapsed since the unpausing call holds, whatever the
\* length of the pause.
C29_BoundedCatchUp ==
    ticked # <<>> =>
        /\ ticked[1].ret.sim_steps <= 5
        /\ ticked[1].after = "unpause" =>
              ticked[1].ret.sim_steps * sim_dt
                 <= mul_f32_scale(Min(ticked[1].elapsed, sim_dt * 5))

\* A pause of a second or more has ended and the tick after it, a second later
\* again, has returned simulation steps.
C29_Witness ==
    /\ JustTicked
    /\ ticked[1].after = "unpause"
    /\ pause_len >= fps_dt
    /\ ticked[1].elapsed >= fps_dt
    /\ ticked[1].ret.sim_steps >= 1

---------------------------------------------------------------------------
(* C30 *)

\* Entity e is entity added but for what update may write: the position, and
\* the velocity and the acceleration of its Physics.
SameButMotion(e, added) ==
    /\ e.shape = added.shape
    /\ has_physics(e) = has_physics(added)
    /\ has_physics(added) =>
          /\ physics(e).mass = physics(added).mass
          /\ physics(e).restitution = physics(added).restitution
          /\ physics(e).friction = physics(added).friction
          /\ physics(e).dynamic = physics(added).dynamic
          /\ physics(e).apply_gravity = physics(added).apply_gravity

\* C30: at every point of every sequence of add_entity and update calls the
\* world holds exactly the entities added, in insertion order, each with the
\* shape, mass, restitution, friction, dynamic and apply_gravity it was added with.
C30_StorePreserved ==
    /\ Len(entities) = Len(world0)
    /\ \A k \in 1..Len(entities) : SameButMotion(entities[k], world0[k])

\* Two different entities were added, two updates have returned, a contact has
\* been resolved, and both entities have been moved from where they were added.
C30_Witness ==
    /\ pc = "idle"
    /\ updates >= 2
    /\ Contacted
    /\ Len(entities) = 2
    /\ world0[1] # world0[2]
    /\ ~SameButMotion(world0[1], world0[2])
    /\ entities[1].position # world0[1].position
    /\ entities[2].position # world0[2].position

============================================================================
